---- MODULE Spec2Model ----
(***************************************************************************)
(* Model of the LineEditor dispatch engine (src/src/engine.rs): the loop   *)
(* read_line_helper and the event handler handle_editor_event, together    *)
(* with the selection helpers.  The text buffer, the editor command        *)
(* dispatch, the list view and the auto-pair policy live outside           *)
(* engine.rs; they are modelled from their description in spec.md.         *)
(***************************************************************************)
EXTENDS Integers, Sequences, FiniteSets, TLC

\* ------------------------------------------------------------------ bounds
\* Longest buffer the model explores.
MaxLen == 3

\* Characters a key press can deliver: one open pairing character and one
\* character that opens no pair.
Chars == {"(", ")"}

\* crate::DEFAULT_PAIRS restricted to the pair the spec names.
DEFAULT_PAIRS == {<<"(", ")">>}

\* Initial contents of the system clipboard.
ClipboardInit == {<<")">>}

\* Literal texts a completer proposes.
Literals == {<<"(">>, <<>>}

VARIABLES
    buffer,             \* editor.styled_buffer(): the characters
    position,           \* editor.styled_buffer().position()
    selected_start,     \* LineEditor.selected_start
    selected_end,       \* LineEditor.selected_end
    clipboard,          \* contents of the system clipboard
    visible,            \* auto_complete_view.is_visible()
    elements,           \* auto_complete_view: the suggestions
    focus,              \* auto_complete_view: the focus index
    buffer_len_before,  \* read_line_helper: buffer length before the events
    pc,                 \* control point of read_line_helper
    result,             \* what read_line_helper returned
    last,               \* the event applied last, its status, how the loop was
                        \* left, what the clipboard did, whether a selection
                        \* was active when the event arrived, what the
                        \* completer and the terminal returned, the row the
                        \* render anchor was moved to
    raw,                \* kind of the raw event read last
    keybindings,        \* the events the keybinding table binds a chord to
    enable_surround_selection,
    auto_pair,          \* an AutoPair policy is registered
    completer,          \* a Completer is registered
    highlighters,       \* LineEditor.highlighters, in registration order
    hinters,            \* LineEditor.hinters, in registration order
    selection_style,    \* LineEditor.selection_style
    painted,            \* the styles render_line_buffer painted last
    rendered,           \* the steps of the latest render pass, in order
    queried,            \* the hinters the latest render pass asked, in order
    shown_hint          \* the hint the latest render pass handed to render_hint

vars == <<buffer, position, selected_start, selected_end, clipboard, visible,
          elements, focus, buffer_len_before, pc, result, last, raw,
          keybindings, enable_surround_selection, auto_pair, completer,
          highlighters, hinters, selection_style,
          painted, rendered, queried, shown_hint>>

config == <<keybindings, enable_surround_selection, auto_pair, completer,
            highlighters, hinters, selection_style>>

screen == <<painted, rendered, queried, shown_hint>>

Min(a, b) == IF a <= b THEN a ELSE b
Max(a, b) == IF a >= b THEN a ELSE b

\* ------------------------------------------------------------ Option values
None == <<>>
Some(x) == <<x>>

\* ---------------------------------------------------------- the text buffer
\* StyledBuffer, Editor, the list view and the auto-pair policy are not part
\* of engine.rs; they follow spec.md sections 3, 4.2, 4.3 and 6:
\*   - the cursor of a buffer lies within [0, length]; an operation handed an
\*     index outside the buffer is outside that contract and ends the session
\*     (panicked), with the state as it was at that point;
\*   - delete_range leaves the cursor at from (the cut of section 4.2 and the
\*     accept of section 4.3 rely on it);
\*   - substring returns an Option: None outside the buffer.
\* The engine state a handler works on is one record e.
Panic(e) == [e EXCEPT !.panicked = TRUE]

set_position(e, n) ==
    IF e.panicked THEN e ELSE [e EXCEPT !.position = n]

insert_string(e, s) ==
    IF e.panicked THEN e
    ELSE IF e.position > Len(e.buffer) THEN Panic(e)
    ELSE [e EXCEPT !.buffer = SubSeq(@, 1, e.position) \o s
                                \o SubSeq(@, e.position + 1, Len(@)),
                   !.position = @ + Len(s)]

insert_char(e, ch) == insert_string(e, <<ch>>)

delete_range(e, from, to) ==
    IF e.panicked THEN e
    ELSE IF from > to \/ to > Len(e.buffer) THEN Panic(e)
    ELSE [e EXCEPT !.buffer = SubSeq(@, 1, from) \o SubSeq(@, to + 1, Len(@)),
                   !.position = from]

delete_left_char(e) ==
    IF e.panicked THEN e
    ELSE IF e.position > Len(e.buffer) THEN Panic(e)
    ELSE IF e.position = 0 THEN e
    ELSE [e EXCEPT !.buffer = SubSeq(@, 1, e.position - 1)
                                \o SubSeq(@, e.position + 1, Len(@)),
                   !.position = @ - 1]

delete_right_char(e) ==
    IF e.panicked THEN e
    ELSE IF e.position >= Len(e.buffer) THEN e
    ELSE [e EXCEPT !.buffer = SubSeq(@, 1, e.position)
                                \o SubSeq(@, e.position + 2, Len(@))]

sub_string(e, from, to) ==
    IF from <= to /\ to <= Len(e.buffer)
    THEN Some(SubSeq(e.buffer, from + 1, to))
    ELSE None

buffer_clear(e) ==
    IF e.panicked THEN e ELSE [e EXCEPT !.buffer = <<>>, !.position = 0]

move_char_left(e) ==
    IF e.panicked \/ e.position = 0 THEN e ELSE [e EXCEPT !.position = @ - 1]

move_char_right(e) ==
    IF e.panicked \/ e.position >= Len(e.buffer) THEN e
    ELSE [e EXCEPT !.position = @ + 1]

\* ------------------------------------------------------------- the editor
run_edit_commands(e, command) ==
    CASE command.op = "InsertChar"      -> insert_char(e, command.ch)
      [] command.op = "InsertString"    -> insert_string(e, command.str)
      [] command.op = "DeleteSpan"      -> delete_range(e, command.from, command.to)
      [] command.op = "DeleteLeftChar"  -> delete_left_char(e)
      [] command.op = "DeleteRightChar" -> delete_right_char(e)

run_movement_commands(e, command) ==
    CASE command = "MoveLeftChar"  -> move_char_left(e)
      [] command = "MoveRightChar" -> move_char_right(e)
      [] command = "MoveToStart"   -> set_position(e, 0)
      [] command = "MoveToEnd"     -> set_position(e, Len(e.buffer))

\* ------------------------------------------------------------ the list view
\* ListView::reset followed by ListView::set_elements: a fresh list with the
\* focus on its first element.
set_elements(e, suggestions) ==
    IF e.panicked THEN e ELSE [e EXCEPT !.elements = suggestions, !.focus = 0]

\* Hiding the view discards its list.
set_visibility(e, v) ==
    IF e.panicked THEN e
    ELSE IF v THEN [e EXCEPT !.visible = TRUE]
    ELSE [e EXCEPT !.visible = FALSE, !.elements = <<>>, !.focus = 0]

selected_element(e) ==
    IF e.focus < Len(e.elements) THEN Some(e.elements[e.focus + 1]) ELSE None

focus_previous(e) ==
    IF e.focus > 0 THEN [e EXCEPT !.focus = @ - 1] ELSE e

focus_next(e) ==
    IF e.focus + 1 < Len(e.elements) THEN [e EXCEPT !.focus = @ + 1] ELSE e

\* --------------------------------------------------- the selection helpers
reset_selection_range(e) ==
    IF e.panicked THEN e
    ELSE [e EXCEPT !.selected_start = e.position,
                   !.selected_end = e.position]

apply_surround_selection(e, start, end) ==
    LET from == Min(e.selected_start, e.selected_end)
        to   == Max(e.selected_start, e.selected_end)
        e1   == insert_char(set_position(e, from), start)
        e2   == insert_char(set_position(e1, to + 1), end)
    IN  set_position(e2, from)

delete_selected_text(e) ==
    IF e.selected_start = e.selected_end THEN e
    ELSE LET from == Min(e.selected_start, e.selected_end)
             to   == Max(e.selected_start, e.selected_end)
             e1   == run_edit_commands(e, [from |-> from,
                                           to |-> to,
                                           op |-> "DeleteSpan"])
         IN  reset_selection_range(set_position(e1, from))

\* ------------------------------------------------------ handle_editor_event
NoResult == [kind |-> "None", content |-> <<>>]

Status(e, st) == [result |-> NoResult, e |-> e, status |-> st]

IsOpenPair(command) ==
    /\ command.op = "InsertChar"
    /\ \E pair \in DEFAULT_PAIRS : pair[1] = command.ch

CloseOf(ch) == (CHOOSE pair \in DEFAULT_PAIRS : pair[1] = ch)[2]

\* The loop over the commands of an Edit event; returned is TRUE when the
\* surround branch left the handler before the loop ended.
RECURSIVE edit_loop(_, _, _)
edit_loop(e, commands, surround) ==
    IF commands = <<>> THEN [e |-> e, returned |-> FALSE]
    ELSE LET command == Head(commands) IN
         IF surround /\ e.selected_start # e.selected_end /\ IsOpenPair(command)
         THEN [e |-> apply_surround_selection(e, command.ch, CloseOf(command.ch)),
               returned |-> TRUE]
         ELSE edit_loop(run_edit_commands(e, command), Tail(commands), surround)

\* What follows the loop: the surround branch has returned already, every
\* other path resets the selection.
after_edit_loop(r) ==
    IF r.returned THEN Status(r.e, "EditHandled")
    ELSE Status(reset_selection_range(r.e), "EditHandled")

handle_Edit(e, commands, surround) ==
    after_edit_loop(edit_loop(e, commands, surround))

RECURSIVE movement_loop(_, _)
movement_loop(e, commands) ==
    IF commands = <<>> THEN e
    ELSE movement_loop(run_movement_commands(e, Head(commands)), Tail(commands))

handle_Movement(e, commands) ==
    Status(reset_selection_range(movement_loop(e, commands)), "MovementHandled")

\* handle_Enter without the clear() of line 394.
handle_Enter_KeepsBuffer(e) ==
    IF e.visible /\ selected_element(e) # None
    THEN LET suggestion == selected_element(e)[1]
             e1 == run_edit_commands(e, [from |-> suggestion.start,
                                         to |-> suggestion.end,
                                         op |-> "DeleteSpan"])
             e2 == run_edit_commands(e1, [op |-> "InsertString",
                                          str |-> suggestion.literal])
         IN  Status(set_visibility(e2, FALSE), "SelectionHandled")
    ELSE [result |-> [kind |-> "Success", content |-> e.buffer],
          e |-> reset_selection_range(e),
          status |-> "Exits"]

handle_Enter(e) ==
    IF e.visible /\ selected_element(e) # None
    THEN LET suggestion == selected_element(e)[1]
             e1 == run_edit_commands(e, [from |-> suggestion.start,
                                         to |-> suggestion.end,
                                         op |-> "DeleteSpan"])
             e2 == run_edit_commands(e1, [op |-> "InsertString",
                                          str |-> suggestion.literal])
         IN  Status(set_visibility(e2, FALSE), "SelectionHandled")
    ELSE [result |-> [kind |-> "Success", content |-> e.buffer],
          e |-> buffer_clear(reset_selection_range(e)),
          status |-> "Exits"]

handle_Up(e) ==
    IF e.visible THEN Status(focus_previous(e), "AutoCompleteHandled")
    ELSE Status(e, "Inapplicable")

handle_Down(e) ==
    IF e.visible THEN Status(focus_next(e), "AutoCompleteHandled")
    ELSE Status(e, "Inapplicable")

\* handle_Left without the reset_selection_range() of line 418.
handle_Left_KeepsSelection(e) ==
    Status(run_movement_commands(e, "MoveLeftChar"), "MovementHandled")

handle_Left(e) ==
    Status(reset_selection_range(run_movement_commands(e, "MoveLeftChar")),
           "MovementHandled")

handle_Right(e) ==
    Status(reset_selection_range(run_movement_commands(e, "MoveRightChar")),
           "MovementHandled")

handle_Delete(e) ==
    IF e.selected_start # e.selected_end
    THEN Status(delete_selected_text(e), "EditHandled")
    ELSE Status(run_edit_commands(e, [op |-> "DeleteRightChar"]), "EditHandled")

handle_Backspace(e) ==
    IF e.selected_start # e.selected_end
    THEN Status(delete_selected_text(e), "EditHandled")
    ELSE Status(run_edit_commands(e, [op |-> "DeleteLeftChar"]), "EditHandled")

handle_SelectLeft(e) ==
    IF e.selected_end < 1 THEN Status(e, "Inapplicable")
    ELSE Status([e EXCEPT !.selected_end = @ - 1], "SelectionHandled")

handle_SelectRight(e) ==
    IF e.selected_end > Len(e.buffer) THEN Status(e, "Inapplicable")
    ELSE Status([e EXCEPT !.selected_end = @ + 1], "SelectionHandled")

handle_SelectAll(e) ==
    Status([e EXCEPT !.selected_start = 0, !.selected_end = Len(e.buffer)],
           "SelectionHandled")

\* env.clip is what the clipboard does when the handler turns to it:
\* "unavailable" when ClipboardProvider::new() returns Err (it is unwrapped),
\* "failed" when get_contents or set_contents returns Err, "ok" otherwise.
\* ClipboardContext::set_contents, its result dropped by `let _ =`.
set_contents(e, text, clip) ==
    IF clip = "ok" THEN [e EXCEPT !.clipboard = text] ELSE e

handle_CutSelected(e, env) ==
    LET from == Min(e.selected_start, e.selected_end)
        to   == Max(e.selected_start, e.selected_end)
    IN  IF e.selected_start # e.selected_end /\ sub_string(e, from, to) # None
        THEN IF env.clip = "unavailable" THEN Status(Panic(e), "Panicked")
             ELSE Status(reset_selection_range(
                             delete_range(set_contents(e, sub_string(e, from, to)[1],
                                                       env.clip),
                                          from, to)),
                         "GeneralHandled")
        ELSE Status(e, "Inapplicable")

handle_CopySelected(e, env) ==
    LET from == Min(e.selected_start, e.selected_end)
        to   == Max(e.selected_start, e.selected_end)
    IN  IF e.selected_start # e.selected_end /\ sub_string(e, from, to) # None
        THEN IF env.clip = "unavailable" THEN Status(Panic(e), "Panicked")
             ELSE Status(set_contents(e, sub_string(e, from, to)[1], env.clip),
                         "GeneralHandled")
        ELSE Status(e, "Inapplicable")

handle_Paste(e, env) ==
    IF env.clip = "unavailable" THEN Status(Panic(e), "Panicked")
    ELSE IF env.clip = "ok"
    THEN Status(run_edit_commands(delete_selected_text(e),
                                  [op |-> "InsertString", str |-> e.clipboard]),
                "GeneralHandled")
    ELSE Status(e, "Inapplicable")

\* Arithmetic on u16: an operation whose result n leaves the type panics in
\* a build with overflow checks and wraps in a build without them.
U16 == 65536
overflows(n) == n < 0 \/ n >= U16
wrapping(n) == n % U16

\* The anchor shift of lines 532-539, e.elements being the list just shown.
\* env.terminal.row is the cursor row position() returned, env.terminal.max_row the row count
\* terminal::size() returns, env.build the kind of build.  e.term records
\* what the terminal reported, e.anchor the row handed to
\* set_start_position.
anchor_shift(e, env) ==
    LET auto_complete_height == Len(e.elements)
        seen == [e EXCEPT !.term = Some([row |-> env.terminal.row,
                                         max_row |-> env.terminal.max_row,
                                         h |-> auto_complete_height])]
    IN  IF overflows(env.terminal.row + auto_complete_height) /\ env.build = "checked"
        THEN Panic(seen)
        ELSE IF wrapping(env.terminal.row + auto_complete_height) > env.terminal.max_row
        THEN IF overflows(env.terminal.max_row - 2 - auto_complete_height)
                /\ env.build = "checked"
             THEN Panic(seen)
             ELSE [seen EXCEPT !.anchor =
                       Some(wrapping(env.terminal.max_row - 2 - auto_complete_height))]
        ELSE seen

\* The call completer.complete(buffer): e.suggested records how many
\* suggestions came back.
complete(e, env) == [e EXCEPT !.suggested = Some(Len(env.suggestions))]

\* handle_ToggleAutoComplete without the is_empty() test of line 518.
handle_ToggleAutoComplete_ShowsEmptyList(e, env, has_completer) ==
    IF e.visible THEN Status(set_visibility(e, FALSE), "Inapplicable")
    ELSE IF has_completer
    THEN Status(anchor_shift(set_visibility(set_elements(complete(e, env),
                                                         env.suggestions),
                                            TRUE),
                             env),
                "AutoCompleteHandled")
    ELSE Status(e, "Inapplicable")

\* handle_ToggleAutoComplete with set_visibility(true) moved in front of the
\* is_empty() test of line 518.
handle_ToggleAutoComplete_ShowsBeforeTest(e, env, has_completer) ==
    IF e.visible THEN Status(set_visibility(e, FALSE), "Inapplicable")
    ELSE IF has_completer
    THEN IF env.suggestions # <<>>
         THEN Status(anchor_shift(set_visibility(set_elements(complete(e, env),
                                                              env.suggestions),
                                                 TRUE),
                                  env),
                     "AutoCompleteHandled")
         ELSE Status(set_visibility(complete(e, env), TRUE), "Inapplicable")
    ELSE Status(e, "Inapplicable")

\* env.suggestions: what completer.complete(buffer) returns.
handle_ToggleAutoComplete(e, env, has_completer) ==
    IF e.visible THEN Status(set_visibility(e, FALSE), "Inapplicable")
    ELSE IF has_completer
    THEN IF env.suggestions # <<>>
         THEN Status(anchor_shift(set_visibility(set_elements(complete(e, env),
                                                              env.suggestions),
                                                 TRUE),
                                  env),
                     "AutoCompleteHandled")
         ELSE Status(complete(e, env), "Inapplicable")
    ELSE Status(e, "Inapplicable")

\* An index outside the buffer ends the handler, whatever it was doing.
or_panic(r) ==
    IF r.e.panicked THEN [r EXCEPT !.status = "Panicked"] ELSE r

handle_editor_event(e, event, env, cfg) ==
    or_panic(
        CASE event.type = "Edit"        -> handle_Edit(e, event.commands, cfg.surround)
          [] event.type = "Movement"    -> handle_Movement(e, event.commands)
          [] event.type = "Enter"       -> handle_Enter(e)
          [] event.type = "Up"          -> handle_Up(e)
          [] event.type = "Down"        -> handle_Down(e)
          [] event.type = "Left"        -> handle_Left(e)
          [] event.type = "Right"       -> handle_Right(e)
          [] event.type = "Delete"      -> handle_Delete(e)
          [] event.type = "Backspace"   -> handle_Backspace(e)
          [] event.type = "SelectLeft"  -> handle_SelectLeft(e)
          [] event.type = "SelectRight" -> handle_SelectRight(e)
          [] event.type = "SelectAll"   -> handle_SelectAll(e)
          [] event.type = "CutSelected" -> handle_CutSelected(e, env)
          [] event.type = "CopySelected" -> handle_CopySelected(e, env)
          [] event.type = "Paste"       -> handle_Paste(e, env)
          [] event.type = "ToggleAutoComplete"
                                        -> handle_ToggleAutoComplete(e, env, cfg.completer)
          [] OTHER                      -> Status(e, "Inapplicable"))

\* --------------------------------------------------------- read_line_helper
\* AutoPair::complete_pair: closes the open pairing character left of the
\* cursor, the cursor staying between the two.
complete_pair(e) ==
    IF /\ e.position >= 1 /\ e.position <= Len(e.buffer)
       /\ \E pair \in DEFAULT_PAIRS : pair[1] = e.buffer[e.position]
    THEN [e EXCEPT !.buffer = SubSeq(@, 1, e.position)
                                \o <<CloseOf(e.buffer[e.position])>>
                                \o SubSeq(@, e.position + 1, Len(@))]
    ELSE e

NoEvent == [type |-> "NoEvent"]

\* Lines 311-317: the auto pair, run when the buffer grew.
auto_pair_step(e, len_before, cfg) ==
    IF len_before < Len(e.buffer) /\ cfg.auto_pair
    THEN complete_pair(e) ELSE e

\* A step of the render pass was carried out.
Done(e, step) ==
    IF e.panicked THEN e ELSE [e EXCEPT !.rendered = Append(@, step)]

\* The style reset_styles gives every character.
DefaultStyle == "Default"

\* StyledBuffer::reset_styles.
reset_styles(e) ==
    IF e.panicked THEN e
    ELSE Done([e EXCEPT !.styles = [i \in 1..Len(e.buffer) |-> DefaultStyle]],
              "reset_styles")

\* StyledBuffer::style_range: the characters at offsets from .. to - 1.
style_range(e, from, to, style) ==
    IF e.panicked THEN e
    ELSE IF from > to \/ to > Len(e.buffer) THEN Panic(e)
    ELSE [e EXCEPT !.styles = [i \in 1..Len(e.buffer) |->
                                 IF from < i /\ i <= to THEN style ELSE @[i]]]

\* Highlighter::highlight of the two highlighters of the model: "Whole"
\* styles the whole buffer, "Head" its first character, each with the style
\* that bears its name.
highlight(e, h) ==
    CASE h = "Whole" -> style_range(e, 0, Len(e.buffer), "Whole")
      [] h = "Head"  -> style_range(e, 0, Min(1, Len(e.buffer)), "Head")

\* The loop of lines 323-325.
RECURSIVE run_highlighters(_, _)
run_highlighters(e, hs) ==
    IF hs = <<>> THEN e
    ELSE run_highlighters(Done(highlight(e, Head(hs)), Head(hs)), Tail(hs))

apply_visual_selection(e, cfg) ==
    IF e.selected_start = e.selected_end THEN e
    ELSE IF cfg.selection_style # None
    THEN Done(style_range(e, Min(e.selected_start, e.selected_end),
                          Max(e.selected_start, e.selected_end),
                          cfg.selection_style[1]),
              "style_selection")
    ELSE e

\* StyledEditorView::render_line_buffer: the buffer is painted with the
\* styles it has at this point.
render_line_buffer(e) ==
    IF e.panicked THEN e
    ELSE Done([e EXCEPT !.painted = e.styles], "render_line_buffer")

\* Hinter::hint of the three hinters of the model: "Never" has no hint,
\* "NonEmpty" has one for a buffer that is not empty, "Always" has one.
hint(e, h) ==
    CASE h = "Never"    -> None
      [] h = "NonEmpty" -> IF Len(e.buffer) > 0 THEN Some("NonEmpty") ELSE None
      [] h = "Always"   -> Some("Always")

\* hint_loop without the break of line 339.
RECURSIVE hint_loop_NoBreak(_, _)
hint_loop_NoBreak(e, hs) ==
    IF hs = <<>> THEN e
    ELSE IF hint(e, Head(hs)) # None
    THEN hint_loop_NoBreak([e EXCEPT !.queried = Append(@, Head(hs)),
                                     !.shown_hint = hint(e, Head(hs))],
                           Tail(hs))
    ELSE hint_loop_NoBreak([e EXCEPT !.queried = Append(@, Head(hs))], Tail(hs))

\* The loop of lines 336-341.
RECURSIVE hint_loop(_, _)
hint_loop(e, hs) ==
    IF hs = <<>> THEN e
    ELSE IF hint(e, Head(hs)) # None
    THEN [e EXCEPT !.queried = Append(@, Head(hs)),
                   !.shown_hint = hint(e, Head(hs))]
    ELSE hint_loop([e EXCEPT !.queried = Append(@, Head(hs))], Tail(hs))

\* Lines 334-342.
hint_step(e, hs) ==
    IF e.panicked \/ e.position # Len(e.buffer) THEN e ELSE hint_loop(e, hs)

\* What the pass starts from: nothing rendered, no hinter asked.
begin_pass(e) ==
    [e EXCEPT !.rendered = <<>>, !.queried = <<>>, !.shown_hint = None]

\* render_pass with the selection overlay applied before the highlighters.
render_pass_OverlayFirst(e, len_before, cfg) ==
    hint_step(
        render_line_buffer(
            run_highlighters(
                apply_visual_selection(
                    reset_styles(auto_pair_step(begin_pass(e), len_before, cfg)),
                    cfg),
                cfg.highlighters)),
        cfg.hinters)

\* The part of an iteration after the application loop (lines 311-343):
\* auto pair, reset of the styles, the highlighters, the selection overlay,
\* the repaint, the hint.
render_pass(e, len_before, cfg) ==
    hint_step(
        render_line_buffer(
            apply_visual_selection(
                run_highlighters(
                    reset_styles(auto_pair_step(begin_pass(e), len_before, cfg)),
                    cfg.highlighters),
                cfg)),
        cfg.hinters)

\* The loop over the queued events; flow tells how the loop was left.
RECURSIVE apply_events(_, _, _, _, _)
RECURSIVE after_event(_, _, _, _)

apply_events(e, events, env, cfg, applied) ==
    IF events = <<>>
    THEN [result |-> NoResult, last |-> applied, e |-> e, flow |-> "render"]
    ELSE after_event(handle_editor_event(e, Head(events), env, cfg),
                     events, env, cfg)

\* The match on the status of the event at the head of events.
after_event(r, events, env, cfg) ==
    CASE r.status \in {"AutoCompleteHandled", "Inapplicable"}
           -> [result |-> NoResult,
               last |-> [status |-> r.status, event |-> Head(events)],
               e |-> r.e,
               flow |-> "continue_main"]
      [] r.status = "Exits"
           -> [result |-> r.result,
               last |-> [status |-> r.status, event |-> Head(events)],
               e |-> r.e,
               flow |-> "return"]
      [] r.status = "Panicked"
           -> [result |-> NoResult,
               last |-> [status |-> r.status, event |-> Head(events)],
               e |-> r.e,
               flow |-> "panic"]
      [] OTHER
           -> apply_events(r.e, Tail(events), env, cfg,
                           [status |-> r.status, event |-> Head(events)])

\* ------------------------------------------------------------------ inputs
Suggestion(literal, start, end) ==
    [start |-> start, end |-> end, literal |-> literal]

\* Lists a completer returns for a buffer of length n: every span lies
\* inside that buffer.
SuggestionLists(n) ==
    {<<>>} \cup
    { <<Suggestion(<<"(">>, sp[1], sp[2]), Suggestion(<<>>, sp[1], sp[2])>> :
        sp \in {<<0, n>>, <<n, n>>} }

InsertChar(ch) == [ch |-> ch, op |-> "InsertChar"]
InsertString(str) == [op |-> "InsertString", str |-> str]
Edit(commands) == [commands |-> commands, type |-> "Edit"]
Movement(commands) == [commands |-> commands, type |-> "Movement"]
Simple(t) == [type |-> t]

\* Events a keybinding table can resolve a chord to.  Interrupt and
\* EndSession stand for the events handle_editor_event has no arm for.
CoreEvents ==
    { Simple(t) : t \in {"Enter", "Up", "Down", "Left", "Right", "Delete",
                         "Backspace", "SelectLeft", "SelectRight", "SelectAll",
                         "ToggleAutoComplete", "Interrupt", "EndSession"} }
    \cup { Movement(<<m>>) : m \in {"MoveToStart", "MoveToEnd"} }

ClipboardEvents == { Simple(t) : t \in {"CutSelected", "CopySelected", "Paste"} }

\* Text blocks a bracketed paste delivers.
PastedStrings == {<<")", "(">>}

\* The handler of event turns to the clipboard in state e.
UsesClipboard(e, event) ==
    \/ event.type = "Paste"
    \/ /\ event.type \in {"CutSelected", "CopySelected"}
       /\ e.selected_start # e.selected_end
       /\ Max(e.selected_start, e.selected_end) <= Len(e.buffer)

\* Cursor row and row count a terminal reports: the overlay fits below the
\* cursor, it does not fit in a tall terminal, it does not fit in a terminal
\* of three rows, the cursor row is the last row a u16 can hold.
Terminal(row, max_row) == [row |-> row, max_row |-> max_row]
Terminals == {Terminal(0, 24), Terminal(23, 24), Terminal(2, 3),
              Terminal(65534, 65535)}

\* Builds with and without overflow checks.
Builds == {"checked", "unchecked"}

\* The outcomes of the collaborators an event consults; the terminal is
\* consulted only when a list is shown.
Envs(e, event) ==
    { env \in [suggestions : IF event.type = "ToggleAutoComplete" /\ ~e.visible
                             THEN SuggestionLists(Len(e.buffer)) ELSE {<<>>},
               clip : IF UsesClipboard(e, event)
                      THEN {"ok", "unavailable", "failed"} ELSE {"unused"},
               terminal : Terminals,
               build : Builds] :
        env.suggestions = <<>>
            => (env.terminal = Terminal(0, 24) /\ env.build = "checked") }

\* ------------------------------------------------------------- the machine
Engine ==
    [buffer |-> buffer,
     position |-> position,
     selected_start |-> selected_start,
     selected_end |-> selected_end,
     clipboard |-> clipboard,
     visible |-> visible,
     elements |-> elements,
     focus |-> focus,
     painted |-> painted,
     rendered |-> rendered,
     queried |-> queried,
     shown_hint |-> shown_hint,
     panicked |-> FALSE,
     term |-> None,
     anchor |-> None,
     suggested |-> None,
     styles |-> <<>>]

Cfg == [auto_pair |-> auto_pair,
        completer |-> completer,
        highlighters |-> highlighters,
        hinters |-> hinters,
        selection_style |-> selection_style,
        surround |-> enable_surround_selection]

NoLast == [status |-> "NoEvent",
           clip |-> "unused",
           term |-> None,
           anchor |-> None,
           suggested |-> None,
           event |-> NoEvent,
           flow |-> "none",
           selected |-> FALSE]

\* What the configuration calls set up before a session: the keybinding
\* table, surround selection, an auto-pair policy, a completer.
Configuration(k, s, a, c) ==
    [keybindings |-> k,
     auto_pair |-> a,
     completer |-> c,
     highlighters |-> <<>>,
     hinters |-> <<>>,
     selection_style |-> None,
     surround |-> s]

\* The configuration c with highlighters hl, hinters hn and the selection
\* style st registered as well.
Styled(c, hl, hn, st) ==
    [c EXCEPT !.highlighters = hl, !.hinters = hn, !.selection_style = st]

Configurations ==
    { Configuration(CoreEvents, s, a, FALSE) : s \in BOOLEAN, a \in BOOLEAN }
    \cup { Configuration(CoreEvents \cup ClipboardEvents, FALSE, FALSE, FALSE),
           Configuration(CoreEvents, FALSE, FALSE, TRUE),
           Styled(Configuration(CoreEvents, FALSE, FALSE, FALSE),
                  <<"Whole", "Head">>, <<"Never", "NonEmpty", "Always">>,
                  Some("Selection")),
           Styled(Configuration(CoreEvents, FALSE, TRUE, FALSE),
                  <<"Head", "Whole">>, <<"NonEmpty", "Never">>, None) }

\* LineEditor::new followed by the configuration calls.
Init ==
    /\ buffer = <<>>
    /\ position = 0
    /\ selected_start = 0
    /\ selected_end = 0
    /\ clipboard \in ClipboardInit
    /\ visible = FALSE
    /\ elements = <<>>
    /\ focus = 0
    /\ buffer_len_before = 0
    /\ pc = "Idle"
    /\ result = NoResult
    /\ last = NoLast
    /\ raw = "None"
    /\ \E c \in Configurations :
          /\ keybindings = c.keybindings
          /\ enable_surround_selection = c.surround
          /\ auto_pair = c.auto_pair
          /\ completer = c.completer
          /\ highlighters = c.highlighters
          /\ hinters = c.hinters
          /\ selection_style = c.selection_style
    /\ painted = <<>>
    /\ rendered = <<>>
    /\ queried = <<>>
    /\ shown_hint = None

\* read_line: a session starts, on a fresh line of the terminal.
read_line ==
    /\ pc \in {"Idle", "Terminated"}
    /\ pc' = "AwaitingInput"
    /\ result' = NoResult
    /\ last' = NoLast
    /\ raw' = "None"
    /\ painted' = <<>>
    /\ rendered' = <<>>
    /\ queried' = <<>>
    /\ shown_hint' = None
    /\ UNCHANGED <<buffer, position, selected_start, selected_end, clipboard,
                   visible, elements, focus, buffer_len_before, config>>

\* The inner loop left with the queue lineeditor_events, and the loop over
\* that queue run to its end: pc stops at the point the loop was left for.
Dispatch(lineeditor_events, kind) ==
    /\ pc = "AwaitingInput"
    /\ \E ev \in {lineeditor_events[i] : i \in 1..Len(lineeditor_events)}
                  \cup {NoEvent} :
       \E env \in Envs(Engine, ev) :
       \E a \in {apply_events(Engine, lineeditor_events, env, Cfg,
                               [status |-> "NoEvent", event |-> NoEvent])} :
         /\ Len(auto_pair_step(a.e, Len(buffer), Cfg).buffer) <= MaxLen
         /\ buffer' = a.e.buffer
         /\ position' = a.e.position
         /\ selected_start' = a.e.selected_start
         /\ selected_end' = a.e.selected_end
         /\ clipboard' = a.e.clipboard
         /\ visible' = a.e.visible
         /\ elements' = a.e.elements
         /\ focus' = a.e.focus
         /\ result' = a.result
         /\ last' = [status |-> a.last.status,
                     clip |-> env.clip,
                     term |-> a.e.term,
                     anchor |-> a.e.anchor,
                     suggested |-> a.e.suggested,
                     event |-> a.last.event,
                     flow |-> a.flow,
                     selected |-> selected_start # selected_end]
         /\ pc' = CASE a.flow = "return" -> "Terminated"
                    [] a.flow = "panic"  -> "Panicked"
                    [] OTHER             -> "Applied"
    /\ buffer_len_before' = Len(buffer)
    /\ raw' = kind
    /\ UNCHANGED <<config, screen>>

\* A character press with no modifier or shift only that the filter accepts.
ReadChar == \E ch \in Chars : Dispatch(<<Edit(<<InsertChar(ch)>>)>>, "Char")

\* A character press the input filter rejects: nothing is queued, the inner
\* loop is left all the same.
ReadFilteredChar == Dispatch(<<>>, "FilteredChar")

\* A key chord the keybinding table knows.
ReadBoundKey == \E ev \in keybindings : Dispatch(<<ev>>, "BoundKey")

\* A bracketed paste.
ReadPaste ==
    \E str \in PastedStrings : Dispatch(<<Edit(<<InsertString(str)>>)>>, "Paste")

\* An unbound chord, or a focus, resize or mouse event: the inner loop reads on.
ReadIgnored ==
    /\ pc = "AwaitingInput"
    /\ raw # "Ignored"
    /\ raw' = "Ignored"
    /\ UNCHANGED <<buffer, position, selected_start, selected_end, clipboard,
                   visible, elements, focus, buffer_len_before, pc, result,
                   last, config, screen>>

\* continue 'main: back to the inner loop with no render pass.
ContinueMain ==
    /\ pc = "Applied"
    /\ last.flow = "continue_main"
    /\ pc' = "AwaitingInput"
    /\ last' = NoLast
    /\ raw' = "None"
    /\ buffer_len_before' = 0
    /\ UNCHANGED <<buffer, position, selected_start, selected_end, clipboard,
                   visible, elements, focus, result, config, screen>>

\* The queue was applied to its end: auto pair and the render pass.
Render ==
    /\ pc = "Applied"
    /\ last.flow = "render"
    /\ \E e \in {render_pass(Engine, buffer_len_before, Cfg)} :
         /\ buffer' = e.buffer
         /\ position' = e.position
         /\ painted' = e.painted
         /\ rendered' = e.rendered
         /\ queried' = e.queried
         /\ shown_hint' = e.shown_hint
         /\ pc' = IF e.panicked THEN "Panicked" ELSE "AwaitingInput"
    /\ last' = NoLast
    /\ raw' = "None"
    /\ buffer_len_before' = 0
    /\ UNCHANGED <<selected_start, selected_end, clipboard, visible, elements,
                   focus, result, config>>

Next ==
    \/ read_line
    \/ ReadChar
    \/ ReadFilteredChar
    \/ ReadBoundKey
    \/ ReadPaste
    \/ ReadIgnored
    \/ ContinueMain
    \/ Render

Spec == Init /\ [][Next]_vars

\* ================================================================== claims
\* The step that reads an accepted raw event and applies an event of type t.
Applies(t) == pc = "AwaitingInput" /\ last'.event.type = t

\* The event ev is the insertion of the character ch.
IsInsertChar(ev, ch) ==
    /\ ev.type = "Edit"
    /\ Len(ev.commands) = 1
    /\ ev.commands[1].op = "InsertChar"
    /\ ev.commands[1].ch = ch

SelFrom == Min(selected_start, selected_end)
SelTo == Max(selected_start, selected_end)

\* C1: in every reachable state both selection endpoints lie inside the
\* buffer: 0 <= selected_start, selected_end <= buffer length.
C1_SelectionInsideBuffer ==
    /\ 0 <= selected_start /\ selected_start <= Len(buffer)
    /\ 0 <= selected_end /\ selected_end <= Len(buffer)

\* C2: after an edit event was applied (insertion, Delete, Backspace,
\* surround-insert, cut, clipboard paste) the selection is collapsed onto the
\* cursor: selected_start = selected_end = position.
C2_EditCollapsesSelection ==
    ( /\ pc = "Applied"
      /\ last.event.type \in {"Edit", "Delete", "Backspace", "CutSelected", "Paste"}
      /\ last.status \in {"EditHandled", "GeneralHandled"} )
    => (selected_start = position /\ selected_end = position)

\* C3: Enter applied while the overlay is hidden ends the session with
\* Success(c), c the buffer content at that moment, and leaves an empty
\* buffer and a collapsed selection behind.
C3_EnterHiddenSubmits ==
    [][ (Applies("Enter") /\ ~visible)
        => ( /\ pc' = "Terminated"
             /\ result' = [kind |-> "Success", content |-> buffer]
             /\ Len(buffer') = 0
             /\ selected_start' = selected_end' ) ]_vars

C3_Witness ==
    /\ pc = "Terminated"
    /\ last.event.type = "Enter"
    /\ result.kind = "Success"
    /\ Len(result.content) >= 2
    /\ Len(buffer) = 0

C5_CutPostcondition ==
    [][ (Applies("CutSelected") /\ selected_start # selected_end)
        => ( /\ pc' = "Applied"
             /\ Len(buffer') = Len(buffer) - (SelTo - SelFrom)
             /\ position' = SelFrom
             /\ selected_start' = SelFrom
             /\ selected_end' = SelFrom
             /\ clipboard' = SubSeq(buffer, SelFrom + 1, SelTo) ) ]_vars

\* C6: with surround selection enabled and an active selection (from, to),
\* inserting an open pairing character puts it at offset from and its closing
\* character at offset to + 1, inserts nothing else (the length grows by 2)
\* and leaves the cursor at from.
C6_SurroundInsert ==
    [][ ( /\ pc = "AwaitingInput"
          /\ IsInsertChar(last'.event, "(")
          /\ enable_surround_selection
          /\ selected_start # selected_end )
        => ( /\ pc' = "Applied"
             /\ Len(buffer') = Len(buffer) + 2
             /\ buffer' = SubSeq(buffer, 1, SelFrom) \o <<"(">>
                            \o SubSeq(buffer, SelFrom + 1, SelTo) \o <<")">>
                            \o SubSeq(buffer, SelTo + 1, Len(buffer))
             /\ position' = SelFrom ) ]_vars

\* C7: SelectLeft at selected_end = 0 and SelectRight at selected_end = buffer
\* length change neither the selection, the buffer nor the cursor and are
\* reported as Inapplicable, with no render pass.
C7_SelectAtBoundaryNoOp ==
    [][ ( \/ Applies("SelectLeft") /\ selected_end = 0
          \/ Applies("SelectRight") /\ selected_end = Len(buffer) )
        => ( /\ last'.status = "Inapplicable"
             /\ last'.flow = "continue_main"
             /\ UNCHANGED <<buffer, position, selected_start, selected_end>> ) ]_vars

\* C8: an interrupt event and an end-of-session event are terminal: applying
\* one ends the session with the result Interrupted, respectively
\* EndTerminalSession.
C8_LifecycleEventsTerminate ==
    [][ /\ Applies("Interrupt")
           => (pc' = "Terminated" /\ result'.kind = "Interrupted")
        /\ Applies("EndSession")
           => (pc' = "Terminated" /\ result'.kind = "EndTerminalSession") ]_vars

\* C9: a clipboard failure during cut, copy or paste is a non-fatal
\* Inapplicable outcome: the session goes on, and buffer, cursor and selection
\* are what they were.
C9_ClipboardFailureInapplicable ==
    [][ ( /\ pc = "AwaitingInput"
          /\ last'.event.type \in {"CutSelected", "CopySelected", "Paste"}
          /\ last'.clip \in {"unavailable", "failed"} )
        => ( /\ pc' = "Applied"
             /\ last'.status = "Inapplicable"
             /\ UNCHANGED <<buffer, position, selected_start, selected_end>> ) ]_vars

\* C10: an event reported Inapplicable leaves buffer, cursor, selection and
\* overlay visibility as they were, and the loop goes back to waiting for
\* input with no auto pair and no render pass.
C10_InapplicableChangesNothing ==
    [][ (pc = "AwaitingInput" /\ last'.status = "Inapplicable")
        => ( /\ pc' = "Applied"
             /\ last'.flow = "continue_main"
             /\ UNCHANGED <<buffer, position, selected_start, selected_end,
                            visible>> ) ]_vars

\* The step that starts a session.
StartsSession == pc \in {"Idle", "Terminated"} /\ pc' = "AwaitingInput"

\* C11: at the start of every read_line call, one that follows a session
\* ended by Success included, the buffer is empty, the selection is the empty
\* selection inside the buffer (selected_start = selected_end <= buffer
\* length) and the overlay is hidden.
C11_SessionStartsClean ==
    [][ StartsSession
        => ( /\ Len(buffer') = 0
             /\ selected_start' = selected_end'
             /\ selected_end' <= Len(buffer')
             /\ ~visible' ) ]_vars

\* C12: the cursor lies within [0, buffer length] in every reachable state,
\* the states the surround insert, the deletion of the selection and the
\* acceptance of a suggestion leave behind included.
C12_CursorInsideBuffer ==
    0 <= position /\ position <= Len(buffer)

\* C13: copy on a non-empty selection leaves the buffer and the cursor as
\* they were and sets the clipboard to substring(min, max) of the selection;
\* copy with selected_start = selected_end is reported Inapplicable.
C13_CopyPostcondition ==
    [][ Applies("CopySelected")
        => IF selected_start # selected_end
           THEN /\ pc' = "Applied"
                /\ UNCHANGED <<buffer, position>>
                /\ SelTo <= Len(buffer)
                /\ clipboard' = SubSeq(buffer, SelFrom + 1, SelTo)
           ELSE last'.status = "Inapplicable" ]_vars

\* C14: after a movement event (a Movement command list, Left or Right) was
\* applied, a selection that was active is dropped: selected_start and
\* selected_end both equal the cursor position after the movement.
C14_MovementDropsSelection ==
    [][ (pc = "AwaitingInput" /\ last'.event.type \in {"Movement", "Left", "Right"})
        => ( /\ pc' = "Applied"
             /\ last'.status = "MovementHandled"
             /\ selected_start' = position'
             /\ selected_end' = position' ) ]_vars

\* Left applied while a selection was active, the cursor having moved.
C14_Witness ==
    /\ pc = "Applied"
    /\ last.event.type = "Left"
    /\ last.selected
    /\ position < Len(buffer)
    /\ selected_start = position
    /\ selected_end = position

C18_OnlyAcceptedEventsLeaveAwaiting ==
    [][ /\ (pc = "AwaitingInput" /\ pc' # "AwaitingInput")
           => ( /\ raw' \in {"Char", "BoundKey", "Paste"}
                /\ last'.event.type # "NoEvent" )
        /\ (pc = "AwaitingInput" /\ raw' \in {"Ignored", "FilteredChar"})
           => ( /\ pc' = "AwaitingInput"
                /\ UNCHANGED <<buffer, position, selected_start, selected_end,
                               visible, elements, focus>> ) ]_vars

\* C16: toggling autocomplete while the overlay is hidden, with no completer
\* registered or a completer that returns no suggestion, leaves the overlay
\* hidden, touches neither the list nor the render anchor and is reported
\* Inapplicable.
C16_ToggleWithoutSuggestions ==
    [][ ( /\ Applies("ToggleAutoComplete")
          /\ ~visible
          /\ (~completer \/ last'.suggested = Some(0)) )
        => ( /\ pc' = "Applied"
             /\ last'.status = "Inapplicable"
             /\ ~visible'
             /\ UNCHANGED <<elements, focus>>
             /\ last'.term = None
             /\ last'.anchor = None ) ]_vars

\* The completer was asked and returned no suggestion.
C16_Witness ==
    /\ pc = "Applied"
    /\ last.event.type = "ToggleAutoComplete"
    /\ completer
    /\ last.suggested = Some(0)
    /\ last.status = "Inapplicable"
    /\ ~visible

\* A list of h rows was shown at cursor row r of a terminal of max_row rows
\* with r + h > max_row.
ShiftNeeded ==
    /\ last'.term # None
    /\ last'.term[1].row + last'.term[1].h > last'.term[1].max_row

\* C20: when a list of h rows is shown at cursor row r with r + h > max_row,
\* the new anchor row is computed without unsigned underflow, and
\* 0 <= new_start_row and new_start_row + h <= max_row.
C20_AnchorStaysOnScreen ==
    [][ (Applies("ToggleAutoComplete") /\ ShiftNeeded)
        => ( /\ pc' = "Applied"
             /\ last'.anchor # None
             /\ 0 <= last'.anchor[1]
             /\ last'.anchor[1] + last'.term[1].h <= last'.term[1].max_row ) ]_vars

\* The step that runs the render pass.
Renders == pc = "Applied" /\ last.flow = "render" /\ pc' # "Applied"

IsPrefix(s, t) == Len(s) <= Len(t) /\ s = SubSeq(t, 1, Len(s))

\* The highlighter h styles the character at offset i - 1.
Covers(h, i) == h = "Whole" \/ (h = "Head" /\ i = 1)

\* The selection overlay is styled in the pass.
OverlayApplies == selected_start # selected_end /\ selection_style # None

\* The steps of a render pass in the order the pass takes them.
PassOrder ==
    <<"reset_styles">>
    \o highlighters
    \o (IF OverlayApplies THEN <<"style_selection">> ELSE <<>>)
    \o <<"render_line_buffer">>

\* The style the character at offset i - 1 is painted with: that of the
\* selection overlay inside a styled selection, else that of the highlighter
\* registered last among those that cover the character, else the default.
ExpectedStyle(i) ==
    IF OverlayApplies /\ SelFrom < i /\ i <= SelTo THEN selection_style[1]
    ELSE IF \E j \in 1..Len(highlighters) : Covers(highlighters[j], i)
    THEN highlighters[CHOOSE j \in 1..Len(highlighters) :
                         /\ Covers(highlighters[j], i)
                         /\ \A k \in (j + 1)..Len(highlighters) :
                               ~Covers(highlighters[k], i)]
    ELSE DefaultStyle

\* C17: a render pass comes after the queued events were applied and takes
\* its steps in this order: styles reset, every highlighter in registration
\* order, the selection overlay (only for a non-empty selection), the
\* repaint, the hint; so a character is painted with the style of the
\* highlighter registered last among those that cover it, and with the
\* overlay style inside a styled selection whatever the highlighters did.
C17_RenderOrder ==
    [][ /\ Renders
           => ( /\ IsPrefix(rendered', PassOrder)
                /\ (pc' = "AwaitingInput") => rendered' = PassOrder
                /\ (pc' = "AwaitingInput")
                   => ( /\ Len(painted') = Len(buffer')
                        /\ \A i \in 1..Len(buffer') : painted'[i] = ExpectedStyle(i) )
                /\ UNCHANGED <<selected_start, selected_end>>
                /\ (queried' # <<>>) => rendered' = PassOrder )
        /\ (~Renders /\ ~StartsSession) => UNCHANGED <<painted, rendered>> ]_vars

\* A pass that painted the three styles side by side: the first character
\* by the highlighter registered last, the second by the overlay, the third
\* by the highlighter registered first.
C17_Witness ==
    /\ pc = "AwaitingInput"
    /\ highlighters = <<"Whole", "Head">>
    /\ painted = <<"Head", "Selection", "Whole">>
    /\ rendered = <<"reset_styles", "Whole", "Head", "style_selection",
                    "render_line_buffer">>

\* C19: hinters are asked only in a render pass and only when the cursor is
\* at the end of the buffer after the repaint; they are asked in
\* registration order, the first hint that is not empty is the one rendered,
\* and no hinter registered after it is asked.
C19_HintersInOrder ==
    [][ /\ Renders
           => ( /\ IsPrefix(queried', hinters)
                /\ (queried' # <<>>)
                   => ( /\ position' = Len(buffer')
                        /\ "render_line_buffer" \in
                              {rendered'[i] : i \in 1..Len(rendered')} )
                /\ \A j \in 1..(Len(queried') - 1) :
                      hint([buffer |-> buffer'], queried'[j]) = None
                /\ IF queried' # <<>>
                      /\ hint([buffer |-> buffer'], queried'[Len(queried')]) # None
                   THEN shown_hint' = hint([buffer |-> buffer'],
                                           queried'[Len(queried')])
                   ELSE shown_hint' = None
                /\ (pc' = "AwaitingInput" /\ position' = Len(buffer')
                       /\ shown_hint' = None)
                   => queried' = hinters )
        /\ (~Renders /\ ~StartsSession) => UNCHANGED <<queried, shown_hint>> ]_vars

\* A pass that asked two of three hinters and rendered the hint of the second.
C19_Witness ==
    /\ pc = "AwaitingInput"
    /\ hinters = <<"Never", "NonEmpty", "Always">>
    /\ queried = <<"Never", "NonEmpty">>
    /\ shown_hint = Some("NonEmpty")
    /\ position = Len(buffer)

\* C21: whenever the overlay is visible its list is not empty: the overlay
\* becomes visible only by a toggle whose completer call returned at least
\* one suggestion, and a step that changes the list of a visible overlay
\* hides the overlay.
C21_VisibleListNonEmpty ==
    [][ /\ visible' => Len(elements') > 0
        /\ (~visible /\ visible')
           => ( /\ Applies("ToggleAutoComplete")
                /\ last'.suggested # None
                /\ last'.suggested[1] >= 1 )
        /\ (visible /\ elements' # elements) => ~visible' ]_vars

\* A toggle that showed a list of two suggestions.
C21_Witness ==
    /\ pc = "Applied"
    /\ last.event.type = "ToggleAutoComplete"
    /\ last.suggested = Some(2)
    /\ visible
    /\ Len(elements) = 2

\* C22: the completer returning spans valid for the buffer it was asked
\* about, whenever the overlay is visible every listed suggestion has
\* start <= end <= current buffer length, so no suggestion is accepted with a
\* span outside the buffer.
C22_SpansInsideBuffer ==
    visible => \A i \in 1..Len(elements) :
                  /\ elements[i].start <= elements[i].end
                  /\ elements[i].end <= Len(buffer)

====
